---- MODULE Spec2Model ----
(***************************************************************************)
(* nacl.secret: the SecretBox and Aead facades of PyNaCl                   *)
(* (src/src/nacl/secret.py).                                               *)
(*                                                                         *)
(* Byte strings are sequences of integers 0..255.  Python's None is the    *)
(* value None below, which is no byte string.  A call is a frame: its      *)
(* arguments, its locals and its position in the method body.  Every       *)
(* statement of a method is an operator from frame to frame.  Under Spec   *)
(* a call runs from entry to return in one action; under SpecSteps the     *)
(* callers advance one statement at a time, so their calls interleave.     *)
(*                                                                         *)
(* nacl.bindings, nacl.encoding and nacl.utils are not part of secret.py.  *)
(* They are modelled from the interfaces of spec.md section 6: a           *)
(* deterministic authenticated cipher (a keyed stream plus a 16 byte tag   *)
(* over key, nonce, aad and ciphertext), random(n), and the Raw and Hex    *)
(* encoders.                                                               *)
(***************************************************************************)
EXTENDS Integers, Sequences, FiniteSets, TLC

VARIABLES box, call, wire

vars == <<box, call, wire>>

\* ------------------------------------------------------------ bounds
NumDraws == 2
MaxText == 1

\* ------------------------------------------------- program constants
KEY_SIZE == 32
NONCE_SIZE == 24
MACBYTES == 16

\* ------------------------------------------------------------ values
None == <<-1>>

Min(a, b) == IF a < b THEN a ELSE b

\* s[:n] of Python: the whole of s when it is shorter than n.
Take(s, n) == SubSeq(s, 1, Min(n, Len(s)))

\* s[n:] of Python: empty when s is not longer than n.
Drop(s, n) == SubSeq(s, Min(n, Len(s)) + 1, Len(s))

Fill(n, v) == [i \in 1..n |-> v]

Ramp(n, v) == [i \in 1..n |-> (v + i) % 256]

\* ---------------------------------------------------------- encoders
RawEncoder == "RawEncoder"
HexEncoder == "HexEncoder"
Encoders == {RawEncoder, HexEncoder}

HexDigit(v) == IF v < 10 THEN 48 + v ELSE 87 + v

HexVal(c) ==
    IF c >= 48 /\ c <= 57 THEN c - 48
    ELSE IF c >= 97 /\ c <= 102 THEN c - 87
    ELSE IF c >= 65 /\ c <= 70 THEN c - 55
    ELSE -1

hexlify(s) ==
    [i \in 1..(2 * Len(s)) |->
        IF i % 2 = 1 THEN HexDigit(s[(i + 1) \div 2] \div 16)
        ELSE HexDigit(s[i \div 2] % 16)]

unhexlify(s) ==
    IF Len(s) % 2 = 1 \/ \E i \in 1..Len(s) : HexVal(s[i]) = -1
    THEN [ok |-> FALSE, val |-> <<>>]
    ELSE [ok |-> TRUE,
          val |-> [i \in 1..(Len(s) \div 2) |->
                      16 * HexVal(s[2 * i - 1]) + HexVal(s[2 * i])]]

Encode(encoder, data) ==
    IF encoder = HexEncoder THEN hexlify(data) ELSE data

Decode(encoder, data) ==
    IF encoder = HexEncoder THEN unhexlify(data)
    ELSE [ok |-> TRUE, val |-> data]

\* ------------------------------------------------- primitive provider
SecretBox == "SecretBox"
Aead == "Aead"
Classes == {SecretBox, Aead}

\* The two constructions are different ciphers: XSalsa20 and XChaCha20.
Domain(cls) == IF cls = SecretBox THEN 1 ELSE 2

Stream(cls, n, k, i) ==
    (k[((i - 1) % KEY_SIZE) + 1] + n[((i - 1) % NONCE_SIZE) + 1]
        + Domain(cls) + i) % 256

\* The tag: byte j is the sum of every MACBYTES-th byte, from the j-th on, of
\* key, nonce, cipher, aad length, aad and ciphertext body.
RECURSIVE Lane(_, _)
Lane(s, i) == IF i > Len(s) THEN 0 ELSE (s[i] + Lane(s, i + MACBYTES)) % 256

Mac(cls, body, aad, n, k) ==
    LET s == k \o n \o <<Domain(cls), Len(aad)>> \o aad \o body
    IN  [j \in 1..MACBYTES |-> Lane(s, j)]

Seal(cls, message, aad, n, k) ==
    IF Len(n) # NONCE_SIZE \/ Len(k) # KEY_SIZE
    THEN [ok |-> FALSE, exc |-> "ValueError: Invalid size", val |-> <<>>]
    ELSE LET body == [i \in 1..Len(message) |->
                         (message[i] + Stream(cls, n, k, i)) % 256]
         IN  [ok |-> TRUE, exc |-> "",
              val |-> body \o Mac(cls, body, aad, n, k)]

Open(cls, ciphertext, aad, n, k) ==
    IF Len(n) # NONCE_SIZE \/ Len(k) # KEY_SIZE
    THEN [ok |-> FALSE, exc |-> "ValueError: Invalid size", val |-> <<>>]
    ELSE IF Len(ciphertext) < MACBYTES
    THEN [ok |-> FALSE, exc |-> "CryptoError", val |-> <<>>]
    ELSE LET body == Take(ciphertext, Len(ciphertext) - MACBYTES)
             tag == Drop(ciphertext, Len(ciphertext) - MACBYTES)
         IN  IF tag # Mac(cls, body, aad, n, k)
             THEN [ok |-> FALSE, exc |-> "CryptoError", val |-> <<>>]
             ELSE [ok |-> TRUE, exc |-> "",
                   val |-> [i \in 1..Len(body) |->
                               (body[i] - Stream(cls, n, k, i)) % 256]]

crypto_secretbox(message, nonce, key) ==
    Seal(SecretBox, message, <<>>, nonce, key)

crypto_secretbox_open(ciphertext, nonce, key) ==
    Open(SecretBox, ciphertext, <<>>, nonce, key)

crypto_aead_xchacha20poly1305_ietf_encrypt(message, aad, nonce, key) ==
    Seal(Aead, message, aad, nonce, key)

crypto_aead_xchacha20poly1305_ietf_decrypt(ciphertext, aad, nonce, key) ==
    Open(Aead, ciphertext, aad, nonce, key)

\* random(size): the bytes the random source hands out on draw d.
random(size, d) == Ramp(size, 16 * d)

\* -------------------------------------------------------------- inputs
Boxes == {1, 2}
Callers == {1, 2}
Draws == 1..NumDraws

K0 == Fill(KEY_SIZE, 0)
K1 == Ramp(KEY_SIZE, 0)

\* A key argument as Python sees it: a value and its type.
Bytes(s) == [type |-> "bytes", val |-> s]
Str(s) == [type |-> "str", val |-> s]

KeyArgs ==
    { Bytes(K0), Bytes(K1), Bytes(Take(K0, KEY_SIZE - 1)), Str(K0),
      Bytes(hexlify(K0)), Bytes(Take(hexlify(K0), 2 * KEY_SIZE - 1)) }

Texts == { Fill(n, 116) : n \in 0..MaxText }
Aads == { Fill(n, 104) : n \in 0..MaxText }

N0 == Fill(NONCE_SIZE, 0)
N1 == Fill(NONCE_SIZE, 9)
NonceArgs == { None, N0, Take(N0, NONCE_SIZE - 1) }

\* --------------------------------------------------------------- state
NoResult ==
    [kind |-> "none", exc |-> "", nonce |-> <<>>, ciphertext |-> <<>>,
     combined |-> <<>>, value |-> <<>>]

NoSrc ==
    [box |-> 0, cls |-> "", key |-> None, plaintext |-> <<>>, aad |-> <<>>,
     nonce |-> None, given |-> FALSE, arg |-> None,
     encoder |-> RawEncoder,
     raw |-> <<>>, msg |-> NoResult]

NoBox == [cls |-> "", key |-> None]

Idle ==
    [op |-> "idle", pc |-> "idle", self |-> 0, cls |-> "",
     key |-> Bytes(<<>>), a_key |-> Bytes(<<>>), _key |-> None, plaintext |-> <<>>, aad |-> <<>>,
     nonce |-> None, encoder |-> RawEncoder, ciphertext |-> <<>>,
     result |-> NoResult, a_nonce |-> None, a_ciphertext |-> <<>>,
     decoded |-> <<>>, trace |-> <<>>, rnd |-> <<>>, prim |-> <<>>,
     src |-> NoSrc]

InvalidKeyType == "TypeError: must be created from 32 bytes"
InvalidKeySize == "ValueError: The key must be exactly 32 bytes long"
InvalidNonceSize == "ValueError: The nonce must be exactly 24 bytes long"
AuthenticationFailure == "CryptoError"
EncodingError == "EncodingError"

Raised(exc) == [NoResult EXCEPT !.kind = "raise", !.exc = exc]

\* raise: the call ends at this statement.
Raise(f, event, exc) ==
    [f EXCEPT !.pc = "done", !.result = Raised(exc),
              !.trace = Append(@, event)]

\* The statement at pc moves the frame on to the next one.
Goto(f, event, pc) == [f EXCEPT !.pc = pc, !.trace = Append(@, event)]

\* ------------------------------------------- __init__ (lines 57-67)
decode_key(encoder, key) ==
    IF encoder = HexEncoder
    THEN LET d == unhexlify(key.val) IN [ok |-> d.ok, val |-> Bytes(d.val)]
    ELSE [ok |-> TRUE, val |-> key]

isinstance_bytes(key) == key.type = "bytes"

InitFrame(b, cls, key, encoder) ==
    [Idle EXCEPT !.op = "init", !.pc = "decode", !.self = b, !.cls = cls,
                 !.key = key, !.a_key = key, !.encoder = encoder]

init_decode(f) ==
    IF f.pc # "decode" THEN f
    ELSE LET d == decode_key(f.encoder, f.key)
         IN  IF ~d.ok THEN Raise(f, "decode", EncodingError)
             ELSE [Goto(f, "decode", "type") EXCEPT !.key = d.val]

init_type(f) ==
    IF f.pc # "type" THEN f
    ELSE IF ~isinstance_bytes(f.key) THEN Raise(f, "type", InvalidKeyType)
    ELSE Goto(f, "type", "size")

\* Mutant: only a key that is too long is refused.
init_size_max(f) ==
    IF f.pc # "size" THEN f
    ELSE IF Len(f.key.val) > KEY_SIZE THEN Raise(f, "size", InvalidKeySize)
    ELSE Goto(f, "size", "store")

init_size(f) ==
    IF f.pc # "size" THEN f
    ELSE IF Len(f.key.val) # KEY_SIZE THEN Raise(f, "size", InvalidKeySize)
    ELSE Goto(f, "size", "store")

init_store(f) ==
    IF f.pc # "store" THEN f
    ELSE [Goto(f, "store", "done") EXCEPT !._key = f.key.val,
                                          !.result.kind = "instance"]

RunInit(f) == init_store(init_size(init_type(init_decode(f))))

\* Mutant: a call that raises wipes the key of its box.
Bind_wipe(f, boxes) ==
    IF f.op = "init" /\ f._key # None
    THEN [boxes EXCEPT ![f.self] = [cls |-> f.cls, key |-> f._key]]
    ELSE IF f.op \in {"encrypt", "decrypt"} /\ f.result.kind = "raise"
    THEN [boxes EXCEPT ![f.self].key = Fill(KEY_SIZE, 255)]
    ELSE boxes

\* The instance a constructor call has been building, once it holds a key.
Bind(f, boxes) ==
    IF f.op = "init" /\ f._key # None
    THEN [boxes EXCEPT ![f.self] = [cls |-> f.cls, key |-> f._key]]
    ELSE boxes

\* -------------------------------- encrypt (lines 72-108, 201-246)
EncryptFrame(b, cls, plaintext, aad, nonce, encoder) ==
    [Idle EXCEPT !.op = "encrypt", !.pc = "nonce", !.self = b, !.cls = cls,
                 !.plaintext = plaintext, !.aad = aad, !.nonce = nonce,
                 !.a_nonce = nonce, !.encoder = encoder]

\* Mutant: a fresh nonce is drawn whether or not one was given.
encrypt_nonce_fresh(f, d) ==
    IF f.pc # "nonce" THEN f
    ELSE [Goto(f, "random", "check") EXCEPT
            !.nonce = random(NONCE_SIZE, d),
            !.rnd = Append(@, [size |-> NONCE_SIZE,
                               val |-> random(NONCE_SIZE, d)])]

\* Mutant: the random source is read before the nonce argument is looked at.
encrypt_nonce_eager(f, d) ==
    IF f.pc # "nonce" THEN f
    ELSE [Goto(f, "random", "check") EXCEPT
            !.nonce = IF f.nonce = None THEN random(NONCE_SIZE, d)
                      ELSE f.nonce,
            !.rnd = Append(@, [size |-> NONCE_SIZE,
                               val |-> random(NONCE_SIZE, d)])]

encrypt_nonce(f, d) ==
    IF f.pc # "nonce" THEN f
    ELSE IF f.nonce = None
    THEN [Goto(f, "random", "check") EXCEPT
            !.nonce = random(NONCE_SIZE, d),
            !.rnd = Append(@, [size |-> NONCE_SIZE,
                               val |-> random(NONCE_SIZE, d)])]
    ELSE [f EXCEPT !.pc = "check"]

encrypt_check(f) ==
    IF f.pc # "check" THEN f
    ELSE IF Len(f.nonce) # NONCE_SIZE THEN Raise(f, "check", InvalidNonceSize)
    ELSE Goto(f, "check", "seal")

PrimCall(fn, text, aad, nonce, key) ==
    [fn |-> fn, text |-> text, aad |-> aad, nonce |-> nonce, key |-> key]

seal(cls, plaintext, aad, nonce, key) ==
    IF cls = SecretBox THEN crypto_secretbox(plaintext, nonce, key)
    ELSE crypto_aead_xchacha20poly1305_ietf_encrypt(plaintext, aad, nonce, key)

encrypt_seal(f, key) ==
    IF f.pc # "seal" THEN f
    ELSE LET r == seal(f.cls, f.plaintext, f.aad, f.nonce, key)
             g == [f EXCEPT !.prim = Append(@, PrimCall("seal", f.plaintext,
                                                        f.aad, f.nonce, key))]
         IN  IF ~r.ok THEN Raise(g, "seal", r.exc)
             ELSE [Goto(g, "seal", "encode") EXCEPT !.ciphertext = r.val]

EncryptedMessage(nonce, ciphertext, combined) ==
    [NoResult EXCEPT !.kind = "message", !.nonce = nonce,
                     !.ciphertext = ciphertext, !.combined = combined]

\* Mutant: the combined view is ciphertext followed by nonce.
encrypt_encode_swapped(f) ==
    IF f.pc # "encode" THEN f
    ELSE [Goto(f, "encode", "done") EXCEPT
            !.result = EncryptedMessage(
                           Encode(f.encoder, f.nonce),
                           Encode(f.encoder, f.ciphertext),
                           Encode(f.encoder, f.ciphertext \o f.nonce))]

encrypt_encode(f) ==
    IF f.pc # "encode" THEN f
    ELSE [Goto(f, "encode", "done") EXCEPT
            !.result = EncryptedMessage(
                           Encode(f.encoder, f.nonce),
                           Encode(f.encoder, f.ciphertext),
                           Encode(f.encoder, f.nonce \o f.ciphertext))]

RunEncrypt(f, d, key) ==
    encrypt_encode(encrypt_seal(encrypt_check(encrypt_nonce(f, d)), key))

\* -------------------------------- decrypt (lines 110-139, 248-279)
DecryptFrame(b, cls, ciphertext, aad, nonce, encoder, m) ==
    [Idle EXCEPT !.op = "decrypt", !.pc = "decode", !.self = b, !.cls = cls,
                 !.ciphertext = ciphertext, !.a_ciphertext = ciphertext,
                 !.aad = aad, !.nonce = nonce, !.a_nonce = nonce,
                 !.encoder = encoder, !.src = m]

decrypt_decode(f) ==
    IF f.pc # "decode" THEN f
    ELSE LET d == Decode(f.encoder, f.ciphertext)
         IN  IF ~d.ok THEN Raise(f, "decode", EncodingError)
             ELSE [Goto(f, "decode", "split") EXCEPT !.ciphertext = d.val,
                                                     !.decoded = d.val]

\* Mutant: the buffer is split whether or not a nonce was given.
decrypt_split_always(f) ==
    IF f.pc # "split" THEN f
    ELSE [Goto(f, "split", "check") EXCEPT
            !.nonce = Take(f.ciphertext, NONCE_SIZE),
            !.ciphertext = Drop(f.ciphertext, NONCE_SIZE)]

\* Mutant: a buffer shorter than a nonce is padded with zero bytes.
decrypt_split_pad(f) ==
    IF f.pc # "split" THEN f
    ELSE IF f.nonce = None
    THEN [Goto(f, "split", "check") EXCEPT
            !.nonce = Take(f.ciphertext, NONCE_SIZE)
                         \o Fill(NONCE_SIZE - Min(NONCE_SIZE,
                                                  Len(f.ciphertext)), 0),
            !.ciphertext = Drop(f.ciphertext, NONCE_SIZE)]
    ELSE [f EXCEPT !.pc = "check"]

decrypt_split(f) ==
    IF f.pc # "split" THEN f
    ELSE IF f.nonce = None
    THEN [Goto(f, "split", "check") EXCEPT
            !.nonce = Take(f.ciphertext, NONCE_SIZE),
            !.ciphertext = Drop(f.ciphertext, NONCE_SIZE)]
    ELSE [f EXCEPT !.pc = "check"]

\* Mutant: the nonce is left to the primitive to check.
decrypt_check_never(f) ==
    IF f.pc # "check" THEN f ELSE Goto(f, "check", "open")

decrypt_check(f) ==
    IF f.pc # "check" THEN f
    ELSE IF Len(f.nonce) # NONCE_SIZE THEN Raise(f, "check", InvalidNonceSize)
    ELSE Goto(f, "check", "open")

\* Mutant: Aead.decrypt does not pass its aad on.
open_no_aad(cls, ciphertext, aad, nonce, key) ==
    IF cls = SecretBox THEN crypto_secretbox_open(ciphertext, nonce, key)
    ELSE crypto_aead_xchacha20poly1305_ietf_decrypt(ciphertext, <<>>, nonce,
                                                    key)

open(cls, ciphertext, aad, nonce, key) ==
    IF cls = SecretBox THEN crypto_secretbox_open(ciphertext, nonce, key)
    ELSE crypto_aead_xchacha20poly1305_ietf_decrypt(ciphertext, aad, nonce,
                                                    key)

decrypt_open(f, key) ==
    IF f.pc # "open" THEN f
    ELSE LET r == open(f.cls, f.ciphertext, f.aad, f.nonce, key)
             g == [f EXCEPT !.prim = Append(@, PrimCall("open", f.ciphertext,
                                                        f.aad, f.nonce, key))]
         IN  IF ~r.ok THEN Raise(g, "open", r.exc)
             ELSE [Goto(g, "open", "done") EXCEPT
                     !.result = [NoResult EXCEPT !.kind = "bytes",
                                                 !.value = r.val]]

RunDecrypt(f, key) ==
    decrypt_open(decrypt_check(decrypt_split(decrypt_decode(f))), key)

\* ------------------------------------------------------ the callers
\* One bit of one byte changed.
Flip(s, i) ==
    IF i < 1 \/ i > Len(s) THEN s
    ELSE [s EXCEPT ![i] = IF @ % 2 = 0 THEN @ + 1 ELSE @ - 1]

\* What a caller hands to decrypt as ciphertext, made from a message m.
Derive(how, m) ==
    CASE how = "ciphertext" -> m.msg.ciphertext
      [] how = "combined" -> m.msg.combined
      [] how = "flip_first" -> Flip(m.msg.ciphertext, 1)
      [] how = "flip_last" -> Flip(m.msg.ciphertext, Len(m.msg.ciphertext))
      [] how = "combined_flip" -> Flip(m.msg.combined, Len(m.msg.combined))
      [] how = "short" -> Encode(m.encoder, Take(m.nonce, NONCE_SIZE - 1))
      [] how = "nonce_only" -> m.msg.nonce
      [] how = "cut_tag" ->
            Encode(m.encoder, m.nonce \o Take(m.raw, Len(m.raw) - 1))
      [] OTHER -> Take(m.msg.combined, Len(m.msg.combined) - 1)

\* What a caller hands to decrypt as nonce.
NonceOf(which, m) ==
    CASE which = "omit" -> None
      [] which = "raw" -> m.nonce
      [] which = "view" -> m.msg.nonce
      [] which = "other" -> IF m.nonce = N1 THEN N0 ELSE N1
      [] OTHER -> Take(m.nonce, NONCE_SIZE - 1)

\* The decrypt calls the callers make: <<ciphertext, nonce, encoder>>, the
\* encoder being the sender's ("same") or the other one.
Attempts ==
    { <<"ciphertext", "raw", "same">>, <<"combined", "omit", "same">>,
      <<"ciphertext", "view", "same">>, <<"ciphertext", "other", "same">>,
      <<"ciphertext", "short", "same">>, <<"flip_first", "raw", "same">>,
      <<"flip_last", "raw", "same">>, <<"combined_flip", "omit", "same">>,
      <<"short", "omit", "same">>, <<"nonce_only", "omit", "same">>,
      <<"cut_tag", "omit", "same">>, <<"odd", "omit", "same">>,
      <<"odd", "short", "same">>, <<"ciphertext", "raw", "other">>,
      <<"combined", "omit", "other">> }

EncoderOf(which, m) ==
    IF which = "same" THEN m.encoder
    ELSE IF m.encoder = RawEncoder THEN HexEncoder ELSE RawEncoder

\* The aad a caller hands to decrypt: any it knows, or the sender's changed.
AadsFor(m) == Aads \cup {Flip(m.aad, 1)}

\* What is known of a message once encrypt has returned it.
Sent(f) ==
    [box |-> f.self, cls |-> f.cls, key |-> f.prim[1].key, plaintext |-> f.plaintext,
     aad |-> f.aad, nonce |-> f.nonce, given |-> f.a_nonce # None,
     arg |-> f.a_nonce,
     encoder |-> f.encoder, raw |-> f.ciphertext, msg |-> f.result]

Init ==
    /\ box = [b \in Boxes |-> NoBox]
    /\ call = [c \in {1} |-> Idle]
    /\ wire = {}

IsIdle(c) == call[c].op = "idle"

\* Boxes are built in order, each once, and a run builds boxes of one class:
\* the two classes share nothing.
CanConstruct(c, b, cls) ==
    /\ IsIdle(c)
    /\ box[b].key = None
    /\ \A o \in Boxes : o < b => box[o].key # None /\ box[o].cls = cls
    /\ \A o \in DOMAIN call : ~(call[o].op = "init" /\ call[o].self = b)

CanCall(c, b, aad) ==
    /\ IsIdle(c)
    /\ box[b].key # None
    /\ box[b].cls = SecretBox => aad = <<>>

\* A whole call, from entry to return or raise.
Construct(c, b, cls, key, encoder) ==
    /\ CanConstruct(c, b, cls)
    /\ LET f == RunInit(InitFrame(b, cls, key, encoder))
       IN  /\ call' = [call EXCEPT ![c] = f]
           /\ box' = Bind(f, box)
    /\ UNCHANGED wire

Encrypt(c, b, plaintext, aad, nonce, encoder) ==
    /\ CanCall(c, b, aad)
    /\ \E d \in Draws :
          call' = [call EXCEPT ![c] =
                      RunEncrypt(EncryptFrame(b, box[b].cls, plaintext, aad,
                                              nonce, encoder),
                                 d, box[b].key)]
    /\ UNCHANGED <<box, wire>>

Decrypt(c, b, m, how, which, aad, encoder) ==
    /\ CanCall(c, b, aad)
    /\ call' = [call EXCEPT ![c] =
                   RunDecrypt(DecryptFrame(b, box[b].cls, Derive(how, m), aad,
                                           NonceOf(which, m), encoder, m),
                              box[b].key)]
    /\ UNCHANGED <<box, wire>>

\* The call has returned or raised; the caller keeps a message or drops it.
Return(c) ==
    /\ call[c].pc = "done"
    /\ call' = [call EXCEPT ![c] = Idle]
    /\ \/ /\ call[c].result.kind = "message"
          /\ wire' = {Sent(call[c])}
       \/ wire' = wire
    /\ UNCHANGED box

Next ==
    \/ \E c \in DOMAIN call, b \in Boxes, cls \in Classes, key \in KeyArgs,
          encoder \in Encoders : Construct(c, b, cls, key, encoder)
    \/ \E c \in DOMAIN call, b \in Boxes, plaintext \in Texts, aad \in Aads,
          nonce \in NonceArgs, encoder \in Encoders :
          Encrypt(c, b, plaintext, aad, nonce, encoder)
    \/ \E c \in DOMAIN call, b \in Boxes, m \in wire, a \in Attempts :
          \E aad \in AadsFor(m) :
             Decrypt(c, b, m, a[1], a[2], aad, EncoderOf(a[3], m))
    \/ \E c \in DOMAIN call : Return(c)

Spec == Init /\ [][Next]_vars

\* ------------------------------------------- one statement at a time
\* The inputs of the interleaved runs.
StepKeyArgs == { Bytes(K0), Bytes(Take(K0, KEY_SIZE - 1)), Str(K0) }
StepNonceArgs == { None, N0, Take(N0, NONCE_SIZE - 1) }
StepAttempts ==
    { <<"ciphertext", "raw", "same">>, <<"combined", "omit", "same">>,
      <<"flip_last", "raw", "same">>, <<"short", "omit", "same">>,
      <<"odd", "omit", "same">> }

InitSteps ==
    /\ box = [b \in Boxes |-> NoBox]
    /\ call = [c \in Callers |-> Idle]
    /\ wire = {}

At(c, op, pc) == call[c].op = op /\ call[c].pc = pc

\* Caller c enters a method: the frame holds the arguments.
Enter(c, f) ==
    /\ call' = [call EXCEPT ![c] = f]
    /\ UNCHANGED <<box, wire>>

\* Caller c executes the statement that takes its frame to f.
Step(c, f) ==
    /\ call' = [call EXCEPT ![c] = f]
    /\ box' = Bind(f, box)
    /\ UNCHANGED wire

EnterInit(c, b, cls, key, encoder) ==
    /\ CanConstruct(c, b, cls)
    /\ Enter(c, InitFrame(b, cls, key, encoder))

EnterEncrypt(c, b, plaintext, aad, nonce, encoder) ==
    /\ CanCall(c, b, aad)
    /\ Enter(c, EncryptFrame(b, box[b].cls, plaintext, aad, nonce, encoder))

EnterDecrypt(c, b, m, how, which, aad, encoder) ==
    /\ CanCall(c, b, aad)
    /\ Enter(c, DecryptFrame(b, box[b].cls, Derive(how, m), aad,
                             NonceOf(which, m), encoder, m))

InitDecode(c) == At(c, "init", "decode") /\ Step(c, init_decode(call[c]))
InitType(c) == At(c, "init", "type") /\ Step(c, init_type(call[c]))
InitSize(c) == At(c, "init", "size") /\ Step(c, init_size(call[c]))
InitStore(c) == At(c, "init", "store") /\ Step(c, init_store(call[c]))

EncryptNonce(c) ==
    /\ At(c, "encrypt", "nonce")
    /\ \E d \in Draws : Step(c, encrypt_nonce(call[c], d))

EncryptCheck(c) == At(c, "encrypt", "check") /\ Step(c, encrypt_check(call[c]))

EncryptSeal(c) ==
    /\ At(c, "encrypt", "seal")
    /\ Step(c, encrypt_seal(call[c], box[call[c].self].key))

EncryptEncode(c) ==
    At(c, "encrypt", "encode") /\ Step(c, encrypt_encode(call[c]))

DecryptDecode(c) ==
    At(c, "decrypt", "decode") /\ Step(c, decrypt_decode(call[c]))

DecryptSplit(c) == At(c, "decrypt", "split") /\ Step(c, decrypt_split(call[c]))

DecryptCheck(c) == At(c, "decrypt", "check") /\ Step(c, decrypt_check(call[c]))

DecryptOpen(c) ==
    /\ At(c, "decrypt", "open")
    /\ Step(c, decrypt_open(call[c], box[call[c].self].key))

NextSteps ==
    \/ \E c \in DOMAIN call, cls \in Classes, key \in StepKeyArgs :
          EnterInit(c, 1, cls, key, RawEncoder)
    \/ \E c \in DOMAIN call : InitDecode(c)
    \/ \E c \in DOMAIN call : InitType(c)
    \/ \E c \in DOMAIN call : InitSize(c)
    \/ \E c \in DOMAIN call : InitStore(c)
    \/ \E c \in DOMAIN call, b \in Boxes, nonce \in StepNonceArgs,
          encoder \in Encoders :
          EnterEncrypt(c, b, <<116>>, <<>>, nonce, encoder)
    \/ \E c \in DOMAIN call : EncryptNonce(c)
    \/ \E c \in DOMAIN call : EncryptCheck(c)
    \/ \E c \in DOMAIN call : EncryptSeal(c)
    \/ \E c \in DOMAIN call : EncryptEncode(c)
    \/ \E c \in DOMAIN call, b \in Boxes, m \in wire, a \in StepAttempts :
          EnterDecrypt(c, b, m, a[1], a[2], m.aad, m.encoder)
    \/ \E c \in DOMAIN call : DecryptDecode(c)
    \/ \E c \in DOMAIN call : DecryptSplit(c)
    \/ \E c \in DOMAIN call : DecryptCheck(c)
    \/ \E c \in DOMAIN call : DecryptOpen(c)
    \/ \E c \in DOMAIN call : Return(c)

SpecSteps == InitSteps /\ [][NextSteps]_vars

\* ------------------------------------------------------------- claims
Frames == { call[c] : c \in DOMAIN call }

\* The calls of a method that have returned or raised.
Finished(op) == { f \in Frames : f.op = op /\ f.pc = "done" }

Returned(value) == [NoResult EXCEPT !.kind = "bytes", !.value = value]

\* The box of call f holds the key, and is of the class, message m was made with.
SameBox(f, m) == box[f.self].key = m.key /\ box[f.self].cls = m.cls

\* C1: decrypting the ciphertext view of a message that was encrypted with an
\* explicit nonce, under the same key, nonce, encoder and (Aead) aad, returns
\* the plaintext that was encrypted.
C1_RoundTrip ==
    \A f \in Finished("decrypt") :
        ( /\ f.src.given
          /\ f.a_ciphertext = f.src.msg.ciphertext
          /\ f.a_nonce = f.src.nonce
          /\ f.encoder = f.src.encoder
          /\ f.aad = f.src.aad
          /\ SameBox(f, f.src) )
        => f.result = Returned(f.src.plaintext)

C1_Witness ==
    \E f \in Finished("decrypt") :
        /\ f.src.given
        /\ f.a_ciphertext = f.src.msg.ciphertext
        /\ f.a_nonce = f.src.nonce
        /\ f.encoder = f.src.encoder
        /\ f.aad = f.src.aad
        /\ SameBox(f, f.src)
        /\ f.cls = Aead
        /\ f.aad # <<>>
        /\ f.src.plaintext # <<>>
        /\ f.result = Returned(f.src.plaintext)

\* What the sender's encrypt handed to the primitive, as decrypt would.
Handed(f) ==
    /\ Len(f.prim) = 1
    /\ f.prim[1].text = f.src.raw
    /\ f.prim[1].aad = f.src.aad
    /\ f.prim[1].nonce = f.src.nonce
    /\ f.prim[1].key = f.src.key
    /\ f.cls = f.src.cls

\* C2: decrypt returns a plaintext only when ciphertext with tag, nonce, key
\* and aad handed to the primitive are those of the encryption the message
\* came from, and then it is that encryption's plaintext; when the primitive
\* is handed anything else, decrypt raises CryptoError.
C2_Authentic ==
    \A f \in Finished("decrypt") :
        /\ f.result.kind = "bytes"
              => Handed(f) /\ f.result.value = f.src.plaintext
        /\ (f.prim # <<>> /\ ~Handed(f))
              => f.result = Raised(AuthenticationFailure)

C2_Witness ==
    \E f \in Finished("decrypt") :
        /\ f.cls = Aead
        /\ f.src.aad = <<104>>
        /\ f.aad = <<>>
        /\ f.a_ciphertext = f.src.msg.ciphertext
        /\ f.a_nonce = f.src.nonce
        /\ f.encoder = f.src.encoder
        /\ SameBox(f, f.src)
        /\ f.result = Raised(AuthenticationFailure)

\* The key checks of the constructor.
KeyChecked ==
    \A f \in Finished("init") :
        LET d == decode_key(f.encoder, f.a_key)
        IN  /\ (d.ok /\ d.val.type # "bytes")
                  => /\ f.result = Raised(InvalidKeyType)
                     /\ f._key = None
                     /\ box[f.self].key = None
            /\ (d.ok /\ d.val.type = "bytes" /\ Len(d.val.val) # KEY_SIZE)
                  => /\ f.result = Raised(InvalidKeySize)
                     /\ f._key = None
                     /\ box[f.self].key = None

\* The nonce of call f, given or taken from the combined buffer, is not
\* NONCE_SIZE long.
BadNonce(f) ==
    \/ f.a_nonce # None /\ Len(f.a_nonce) # NONCE_SIZE
    \/ /\ f.op = "decrypt"
       /\ f.a_nonce = None
       /\ Decode(f.encoder, f.a_ciphertext).ok
       /\ Len(Take(Decode(f.encoder, f.a_ciphertext).val, NONCE_SIZE))
             # NONCE_SIZE

\* C3 as the specification states it: a key that is no byte string or of the
\* wrong length fails with TypeError or ValueError and no instance holds a
\* key, and every encrypt and decrypt call whose nonce is of the wrong length
\* raises the nonce ValueError.
C3_SizeEnforcement ==
    /\ KeyChecked
    /\ \A f \in Finished("encrypt") \cup Finished("decrypt") :
          BadNonce(f) => f.result = Raised(InvalidNonceSize)

\* C3, amended: the same, for encrypt and for the decrypt calls whose
\* ciphertext decodes; a decrypt call whose ciphertext does not decode raises
\* the encoder's error whatever its nonce, and returns no plaintext either.
C3_SizeEnforcementDecoded ==
    /\ KeyChecked
    /\ \A f \in Finished("encrypt") \cup Finished("decrypt") :
          BadNonce(f) =>
             IF f.op = "decrypt" /\ ~Decode(f.encoder, f.a_ciphertext).ok
             THEN f.result = Raised(EncodingError)
             ELSE f.result = Raised(InvalidNonceSize)

C3_Witness ==
    \E f \in Finished("decrypt") :
        /\ f.a_nonce # None
        /\ Len(f.a_nonce) = NONCE_SIZE - 1
        /\ f.encoder = HexEncoder
        /\ Decode(f.encoder, f.a_ciphertext).ok
        /\ f.result = Raised(InvalidNonceSize)

\* C4: the combined view of every message is the encoding of nonce followed
\* by ciphertext, the ciphertext is MACBYTES longer than the plaintext, and
\* decrypt of the combined view with no nonce, under the same encoder, key
\* and aad, returns the plaintext.
C4_Combined ==
    /\ \A f \in Finished("encrypt") :
          f.result.kind = "message" =>
             /\ Len(f.prim) = 1
             /\ Len(f.ciphertext) = Len(f.plaintext) + MACBYTES
             /\ f.result.combined
                   = Encode(f.encoder, f.prim[1].nonce \o f.ciphertext)
             /\ Decode(f.encoder, f.result.combined)
                   = [ok |-> TRUE, val |-> f.prim[1].nonce \o f.ciphertext]
    /\ \A f \in Finished("decrypt") :
          ( /\ f.a_ciphertext = f.src.msg.combined
            /\ f.a_nonce = None
            /\ f.encoder = f.src.encoder
            /\ f.aad = f.src.aad
            /\ SameBox(f, f.src) )
          => f.result = Returned(f.src.plaintext)

C4_Witness ==
    \E f \in Finished("decrypt") :
        /\ f.a_ciphertext = f.src.msg.combined
        /\ f.a_nonce = None
        /\ ~f.src.given
        /\ f.encoder = HexEncoder
        /\ f.encoder = f.src.encoder
        /\ f.aad = f.src.aad
        /\ SameBox(f, f.src)
        /\ f.src.plaintext # <<>>
        /\ f.result = Returned(f.src.plaintext)

\* C5: decrypt of the ciphertext view and the nonce view of a message, under
\* the encoder, key and aad it was encrypted with, returns the plaintext.
C5_EncodingSymmetry ==
    \A f \in Finished("decrypt") :
        ( /\ f.a_ciphertext = f.src.msg.ciphertext
          /\ f.a_nonce = f.src.msg.nonce
          /\ f.encoder = f.src.encoder
          /\ f.aad = f.src.aad
          /\ SameBox(f, f.src) )
        => f.result = Returned(f.src.plaintext)

\* C6: an encrypt call with the plaintext, explicit nonce, encoder, aad and
\* key of an earlier one, on that box or another, returns the same message.
C6_Deterministic ==
    \A f \in Finished("encrypt") : \A m \in wire :
        ( /\ f.a_nonce # None
          /\ m.given
          /\ f.a_nonce = m.arg
          /\ f.plaintext = m.plaintext
          /\ f.aad = m.aad
          /\ f.encoder = m.encoder
          /\ SameBox(f, m) )
        => f.result = m.msg

C6_Witness ==
    \E f \in Finished("encrypt") : \E m \in wire :
        /\ f.a_nonce # None
        /\ m.given
        /\ f.a_nonce = m.arg
        /\ f.plaintext = m.plaintext
        /\ f.aad = m.aad
        /\ f.encoder = m.encoder
        /\ SameBox(f, m)
        /\ f.self # m.box
        /\ f.result.kind = "message"

\* The statements of call f so far are in the order of the method body.
InOrder(f, body) ==
    \E n \in 0..Len(body) :
        /\ Len(f.trace) = n
        /\ \A i \in 1..n : f.trace[i] = body[i]

\* C7: the nonce is checked before the primitive is invoked, so a call that
\* raises the nonce ValueError or the encoder's error has not invoked it;
\* decrypt decodes, then splits when no nonce was given, then checks, then
\* invokes the primitive; __init__ stores the key after the type check and
\* then the length check.
C7_ValidateFirst ==
    \A f \in Frames :
        /\ f.prim # <<>> => Len(f.prim[1].nonce) = NONCE_SIZE
        /\ f.result = Raised(InvalidNonceSize) => f.prim = <<>>
        /\ f.result = Raised(EncodingError) => f.prim = <<>>
        /\ f.op = "encrypt" =>
              InOrder(f, IF f.a_nonce = None
                         THEN <<"random", "check", "seal", "encode">>
                         ELSE <<"check", "seal", "encode">>)
        /\ f.op = "decrypt" =>
              InOrder(f, IF f.a_nonce = None
                         THEN <<"decode", "split", "check", "open">>
                         ELSE <<"decode", "check", "open">>)
        /\ f.op = "init" =>
              /\ InOrder(f, <<"decode", "type", "size", "store">>)
              /\ f._key # None =>
                    /\ f.trace = <<"decode", "type", "size", "store">>
                    /\ f.key.type = "bytes"
                    /\ Len(f.key.val) = KEY_SIZE
                    /\ f._key = f.key.val

C7_Witness ==
    \E f \in Frames :
        /\ f.op = "decrypt"
        /\ f.pc = "open"
        /\ f.a_nonce = None
        /\ f.trace = <<"decode", "split", "check">>
        /\ f.prim = <<>>

\* The outcome of call f is the outcome of the same call run on its own.
Alone(f) ==
    IF f.op = "encrypt"
    THEN \E d \in Draws :
            /\ f.rnd # <<>> => f.rnd[1].val = random(NONCE_SIZE, d)
            /\ f.result = RunEncrypt(EncryptFrame(f.self, f.cls, f.plaintext,
                                                  f.aad, f.a_nonce,
                                                  f.encoder),
                                     d, box[f.self].key).result
    ELSE f.result = RunDecrypt(DecryptFrame(f.self, f.cls, f.a_ciphertext,
                                            f.aad, f.a_nonce, f.encoder,
                                            f.src),
                               box[f.self].key).result

\* C8: once a box holds a key, no step of any caller changes the box, and
\* every finished encrypt and decrypt call has the outcome its arguments, the
\* key and its random draw give it, whatever the other callers did meanwhile.
C8_KeyImmutable ==
    /\ [][\A b \in Boxes : box[b].key # None => box'[b] = box[b]]_vars
    /\ [](\A f \in Finished("encrypt") \cup Finished("decrypt") : Alone(f))

C8_Witness ==
    \E c \in DOMAIN call : \E o \in DOMAIN call :
        /\ c # o
        /\ call[c].op = "decrypt"
        /\ call[c].pc = "done"
        /\ call[c].result.kind = "bytes"
        /\ call[o].op = "encrypt"
        /\ call[o].pc = "encode"
        /\ call[o].self = call[c].self
        /\ call[o].a_nonce = None

\* C9: decrypt without a nonce, of a buffer that decodes to L bytes: for L
\* below NONCE_SIZE it raises the nonce ValueError and the primitive is not
\* invoked; otherwise it does not raise that error and invokes the primitive
\* with the first NONCE_SIZE bytes as nonce and the rest as ciphertext, and
\* the only error is the primitive's, which it is for a rest shorter than
\* MACBYTES.
C9_SplitRule ==
    \A f \in Finished("decrypt") :
        LET d == Decode(f.encoder, f.a_ciphertext)
            L == Len(d.val)
        IN  (f.a_nonce = None /\ d.ok) =>
               IF L < NONCE_SIZE
               THEN f.result = Raised(InvalidNonceSize) /\ f.prim = <<>>
               ELSE /\ f.result # Raised(InvalidNonceSize)
                    /\ Len(f.prim) = 1
                    /\ f.prim[1].nonce = SubSeq(d.val, 1, NONCE_SIZE)
                    /\ f.prim[1].text = SubSeq(d.val, NONCE_SIZE + 1, L)
                    /\ f.result.kind = "raise"
                          => f.result = Raised(AuthenticationFailure)
                    /\ L < NONCE_SIZE + MACBYTES
                          => f.result = Raised(AuthenticationFailure)

C9_Witness ==
    \E f \in Finished("decrypt") :
        /\ f.a_nonce = None
        /\ Decode(f.encoder, f.a_ciphertext).ok
        /\ Len(Decode(f.encoder, f.a_ciphertext).val) = NONCE_SIZE
        /\ Len(f.prim) = 1
        /\ f.prim[1].text = <<>>
        /\ f.result = Raised(AuthenticationFailure)

\* C10: encrypt without a nonce reads the random source once, for NONCE_SIZE
\* bytes, and its nonce view is the encoding of what it drew, so two such
\* calls that drew different bytes return different nonces; encrypt with a
\* nonce and decrypt never read the random source, and hand the primitive the
\* nonce they were given.
C10_Entropy ==
    /\ \A f \in Finished("encrypt") :
          IF f.a_nonce = None
          THEN /\ Len(f.rnd) = 1
               /\ f.rnd[1].size = NONCE_SIZE
               /\ Len(f.rnd[1].val) = NONCE_SIZE
               /\ Len(f.prim) = 1
               /\ f.prim[1].nonce = f.rnd[1].val
               /\ f.result.kind = "message"
               /\ f.result.nonce = Encode(f.encoder, f.rnd[1].val)
               /\ \A m \in wire :
                     (~m.given /\ m.encoder = f.encoder
                        /\ m.nonce # f.rnd[1].val)
                     => m.msg.nonce # f.result.nonce
          ELSE /\ f.rnd = <<>>
               /\ f.prim # <<>> => f.prim[1].nonce = f.a_nonce
               /\ f.result.kind = "message"
                     => f.result.nonce = Encode(f.encoder, f.a_nonce)
    /\ \A f \in Finished("decrypt") :
          /\ f.rnd = <<>>
          /\ (f.a_nonce # None /\ f.prim # <<>>)
                => f.prim[1].nonce = f.a_nonce

C10_Witness ==
    \E f \in Finished("encrypt") : \E m \in wire :
        /\ f.a_nonce = None
        /\ ~m.given
        /\ m.encoder = f.encoder
        /\ m.nonce # f.rnd[1].val
        /\ SameBox(f, m)
        /\ f.plaintext = m.plaintext
        /\ f.result.nonce # m.msg.nonce

====
